---- MODULE Spec2Model ----
(***************************************************************************)
(* A model of the ohrenbaer tools: the scraper/merger program that keeps   *)
(* the catalog file (podcasts.json) and the downloader program that        *)
(* fetches and optionally transcodes one file per catalog record under a   *)
(* p-limit concurrency cap.                                                *)
(*                                                                         *)
(* Strings that the code takes apart or concatenates (titles, release      *)
(* dates, file names) are sequences of one-character strings; the file     *)
(* extensions are single tokens ".mp3" / ".m4a" at the end of a path.       *)
(***************************************************************************)
EXTENDS Integers, Sequences, FiniteSets, TLC

VARIABLES
    \* ---- scraper/merger program ----
    file,              \* the catalog file: [kind: absent | invalid | json, data]
    spc,               \* position of the scraper's main
    run,               \* "first" or "second" run over the same catalog file
    existingPodcasts,  \* main's existingPodcasts
    newPodcasts,       \* main's newPodcasts
    mergedPodcasts,    \* main's mergedPodcasts
    firstExisting,     \* history: existingPodcasts of the first run
    firstNew,          \* history: newPodcasts of the first run
    scraperExit        \* exit code of the scraper process ("none" while running)

scraperVars == <<file, spc, run, existingPodcasts, newPodcasts, mergedPodcasts,
                 firstExisting, firstNew, scraperExit>>

VARIABLES
    \* ---- downloader program ----
    catalogFile,   \* the input file: [kind: invalid | json, data: titles of the records]
    argv,          \* the parsed options: parallel, force, dryRun, convert, filter
    ffmpegFound,   \* whether `ffmpeg -version` can be run on this machine
    dirExists,     \* whether the download directory exists
    fs,            \* path under the download directory -> absent | old | partial | complete
    fs0,           \* history: fs when the run began
    dpc,           \* position of the downloader's main
    podcasts,      \* main's podcasts (titles), after parsing and after filtering
    queue,         \* the limiter's queue of tasks not yet started (indices into podcasts)
    activeCount,   \* the limiter's count of running tasks
    tasks,         \* per task: pc (the await it is suspended at), ret, status, ticks,
                   \* requests, encodes, and history: mp3Seen / m4aSeen (what was at
                   \* the path when the task's exists check looked); error: the
                   \* Error thrown inside the task body, until the catch has logged it
    progressCurr,  \* the progress bar's count of ticks
    exitCode       \* exit code of the downloader process ("none" while running)

downloaderVars == <<catalogFile, argv, ffmpegFound, dirExists, fs, fs0, dpc, podcasts,
                    queue, activeCount, tasks, progressCurr, exitCode>>

VARIABLES
    \* ---- sanitizeFilename applied to a string, and to its own result ----
    filename,      \* the argument
    sanitized,     \* sanitizeFilename(filename)
    resanitized,   \* sanitizeFilename(sanitized)
    sanpc          \* "in", "once", "twice" ("off" when not under study)

sanitizeVars == <<filename, sanitized, resanitized, sanpc>>

vars == <<scraperVars, downloaderVars, sanitizeVars>>

(***************************************************************************)
(* Bounds                                                                  *)
(***************************************************************************)
MaxExisting == 2   \* longest catalog file present before the first run
MaxIncoming == 2   \* longest list one scraping step yields
MaxCatalog == 3    \* longest catalog the downloader is given
MaxParallel == 2   \* largest --parallel value
MaxTitleLen == 3   \* longest string sanitizeFilename is applied to

(***************************************************************************)
(* Episode records                                                         *)
(***************************************************************************)
Podcast(t, d, l, x) ==
    [title |-> t, releaseDate |-> d, downloadLink |-> l, description |-> x]

\* Four records: PA and PB differ as (title, releaseDate) pairs and agree on
\* the concatenation title|releaseDate; PA2 has PA's pair and other data;
\* PC is unrelated to the rest.
PA  == Podcast(<<"a">>, <<"b", "|", "c">>, "http://x/1.mp3", "one")
PB  == Podcast(<<"a", "|", "b">>, <<"c">>, "http://x/2.mp3", "two")
PA2 == Podcast(<<"a">>, <<"b", "|", "c">>, "http://x/3.mp3", "three")
PC  == Podcast(<<"a">>, <<"c">>, "http://x/4.mp3", "")

Podcasts == {PA, PB, PA2, PC}

SeqsUpTo(S, n) == UNION {[1..k -> S] : k \in 0..n}

\* the (title, releaseDate) pair of a record
IdentityPair(p) == <<p.title, p.releaseDate>>

\* mutant: the key leaves the release date out
IdentityKeyTitleOnly(p) == p.title

\* `${p.title}|${p.releaseDate}`
IdentityKey(p) == p.title \o <<"|">> \o p.releaseDate

\* Array.prototype.filter with the predicate of mergePodcasts
RECURSIVE FilterNew(_, _)
FilterNew(ps, existingSet) ==
    IF ps = <<>> THEN <<>>
    ELSE LET rest == FilterNew(Tail(ps), existingSet)
         IN  IF IdentityKey(Head(ps)) \notin existingSet
             THEN <<Head(ps)>> \o rest
             ELSE rest

\* mutant: every incoming record is appended, none filtered out
MergeAppendAll(existing, incoming) == existing \o incoming

\* mutant: the new records are put in front of the existing ones
MergePrepend(existing, incoming) ==
    FilterNew(incoming, {IdentityKey(existing[i]) : i \in DOMAIN existing}) \o existing

MergePodcasts(existing, incoming) ==
    LET existingSet == {IdentityKey(existing[i]) : i \in DOMAIN existing}
        uniqueNewPodcasts == FilterNew(incoming, existingSet)
    IN  existing \o uniqueNewPodcasts

(***************************************************************************)
(* The scraper/merger program                                              *)
(***************************************************************************)
Absent == [kind |-> "absent", data |-> <<>>]
Invalid == [kind |-> "invalid", data |-> <<>>]
Json(ps) == [kind |-> "json", data |-> ps]

InitScraper ==
    /\ file \in {Absent, Invalid} \cup {Json(ps) : ps \in SeqsUpTo(Podcasts, MaxExisting)}
    /\ spc = "start"
    /\ run = "first"
    /\ existingPodcasts = <<>>
    /\ newPodcasts = <<>>
    /\ mergedPodcasts = <<>>
    /\ firstExisting = <<>>
    /\ firstNew = <<>>
    /\ scraperExit = "none"

DownloaderOff ==
    /\ catalogFile = [kind |-> "invalid", data |-> <<>>]
    /\ argv = [parallel |-> 1, force |-> FALSE, dryRun |-> FALSE, convert |-> FALSE,
               filter |-> <<>>]
    /\ ffmpegFound = FALSE
    /\ dirExists = FALSE
    /\ fs = <<>>
    /\ fs0 = <<>>
    /\ dpc = "off"
    /\ podcasts = <<>>
    /\ queue = <<>>
    /\ activeCount = 0
    /\ tasks = <<>>
    /\ progressCurr = 0
    /\ exitCode = "none"

ScraperOff ==
    /\ file = Absent
    /\ spc = "off"
    /\ run = "first"
    /\ existingPodcasts = <<>>
    /\ newPodcasts = <<>>
    /\ mergedPodcasts = <<>>
    /\ firstExisting = <<>>
    /\ firstNew = <<>>
    /\ scraperExit = "none"

SanitizeOff ==
    /\ filename = <<>>
    /\ sanitized = <<>>
    /\ resanitized = <<>>
    /\ sanpc = "off"

\* mutant: the existing catalog is never read
ReadExistingPodcastsEmpty(f) == <<>>

\* readExistingPodcasts: [] when the file is absent or does not parse
ReadExistingPodcasts(f) == IF f.kind = "json" THEN f.data ELSE <<>>

ReadExisting ==
    /\ spc = "start"
    /\ existingPodcasts' = ReadExistingPodcasts(file)
    /\ spc' = "read"
    /\ UNCHANGED <<file, run, newPodcasts, mergedPodcasts, firstExisting, firstNew,
                   scraperExit>>
    /\ UNCHANGED <<downloaderVars, sanitizeVars>>

\* scrapePodcasts: the records of the page, or [] when the browser step throws
Scrape ==
    /\ spc = "read"
    /\ \E ps \in SeqsUpTo(Podcasts, MaxIncoming) : newPodcasts' = ps
    /\ spc' = "scraped"
    /\ UNCHANGED <<file, run, existingPodcasts, mergedPodcasts, firstExisting,
                   firstNew, scraperExit>>
    /\ UNCHANGED <<downloaderVars, sanitizeVars>>

\* chromium.launch / newContext / newPage (or browser.close in the catch)
\* rejects: scrapePodcasts rejects, main's catch logs and exits with code 1
ScrapeThrows ==
    /\ spc = "read"
    /\ spc' = "scrape_failed"
    /\ scraperExit' = "1"
    /\ UNCHANGED <<file, run, existingPodcasts, newPodcasts, mergedPodcasts,
                   firstExisting, firstNew>>
    /\ UNCHANGED <<downloaderVars, sanitizeVars>>

Merge ==
    /\ spc = "scraped"
    /\ mergedPodcasts' = MergePodcasts(existingPodcasts, newPodcasts)
    /\ spc' = "merged"
    /\ UNCHANGED <<file, run, existingPodcasts, newPodcasts, firstExisting, firstNew,
                   scraperExit>>
    /\ UNCHANGED <<downloaderVars, sanitizeVars>>

\* writeFile(outputPath, JSON.stringify(mergedPodcasts)): records of string
\* fields survive stringify/parse unchanged
Save ==
    /\ spc = "merged"
    /\ file' = Json(mergedPodcasts)
    /\ spc' = "saved"
    /\ scraperExit' = "0"
    /\ UNCHANGED <<run, existingPodcasts, newPodcasts, mergedPodcasts, firstExisting,
                   firstNew>>
    /\ UNCHANGED <<downloaderVars, sanitizeVars>>

\* writeFile rejects: main's catch logs and exits with code 1
SaveFails ==
    /\ spc = "merged"
    /\ spc' = "failed"
    /\ scraperExit' = "1"
    /\ UNCHANGED <<file, run, existingPodcasts, newPodcasts, mergedPodcasts,
                   firstExisting, firstNew>>
    /\ UNCHANGED <<downloaderVars, sanitizeVars>>

\* the program is run again over the catalog file the first run saved
RunAgain ==
    /\ spc = "saved"
    /\ run = "first"
    /\ run' = "second"
    /\ firstExisting' = existingPodcasts
    /\ firstNew' = newPodcasts
    /\ spc' = "start"
    /\ existingPodcasts' = <<>>
    /\ newPodcasts' = <<>>
    /\ mergedPodcasts' = <<>>
    /\ scraperExit' = "none"
    /\ UNCHANGED file
    /\ UNCHANGED <<downloaderVars, sanitizeVars>>



NextScraper ==
    \/ ReadExisting
    \/ Scrape
    \/ ScrapeThrows
    \/ Merge
    \/ Save
    \/ SaveFails
    \/ RunAgain

ScraperInit == InitScraper /\ DownloaderOff /\ SanitizeOff

SpecScraper == ScraperInit /\ [][NextScraper]_vars

(***************************************************************************)
(* The downloader: names and paths                                         *)
(***************************************************************************)
InvalidChars == {"/", "\\", "?", "%", "*", ":", "|", "\"", "<", ">"}
Whitespace == {" ", "\t"}

\* .replace(/[/\\?%*:|"<>]/g, "-")
RECURSIVE ReplaceInvalid(_)
ReplaceInvalid(s) ==
    IF s = <<>> THEN <<>>
    ELSE <<IF Head(s) \in InvalidChars THEN "-" ELSE Head(s)>> \o ReplaceInvalid(Tail(s))

\* s without its leading whitespace characters
RECURSIVE DropWhitespace(_)
DropWhitespace(s) ==
    IF s # <<>> /\ Head(s) \in Whitespace THEN DropWhitespace(Tail(s)) ELSE s

\* mutant: the replacement is not global, only the first run of whitespace is
\* replaced
RECURSIVE ReplaceSpacesFirstRun(_)
ReplaceSpacesFirstRun(s) ==
    IF s = <<>> THEN <<>>
    ELSE IF Head(s) \in Whitespace THEN <<"_">> \o DropWhitespace(s)
    ELSE <<Head(s)>> \o ReplaceSpacesFirstRun(Tail(s))

\* .replace(/\s+/g, "_"): each maximal run of whitespace becomes one underscore
RECURSIVE ReplaceSpaces(_)
ReplaceSpaces(s) ==
    IF s = <<>> THEN <<>>
    ELSE IF Head(s) \in Whitespace THEN <<"_">> \o ReplaceSpaces(DropWhitespace(s))
    ELSE <<Head(s)>> \o ReplaceSpaces(Tail(s))

SanitizeFilename(name) == ReplaceSpaces(ReplaceInvalid(name))

\* The strings sanitizeFilename is studied on: characters of the first
\* replace's class, whitespace, the two replacement characters and a letter.
TitleChars == {"a", "/", "?", " ", "\t", "-", "_"}

InitSanitize ==
    /\ filename \in SeqsUpTo(TitleChars, MaxTitleLen)
    /\ sanitized = <<>>
    /\ resanitized = <<>>
    /\ sanpc = "in"

\* sanitizeFilename(filename)
SanitizeOnce ==
    /\ sanpc = "in"
    /\ sanitized' = SanitizeFilename(filename)
    /\ sanpc' = "once"
    /\ UNCHANGED <<filename, resanitized>>
    /\ UNCHANGED <<scraperVars, downloaderVars>>

\* sanitizeFilename applied to the name it produced
SanitizeAgain ==
    /\ sanpc = "once"
    /\ resanitized' = SanitizeFilename(sanitized)
    /\ sanpc' = "twice"
    /\ UNCHANGED <<filename, sanitized>>
    /\ UNCHANGED <<scraperVars, downloaderVars>>

NextSanitize ==
    \/ SanitizeOnce
    \/ SanitizeAgain

SanitizeInit == InitSanitize /\ ScraperOff /\ DownloaderOff

SpecSanitize == SanitizeInit /\ [][NextSanitize]_vars

\* `${sanitizeFilename(podcast.title)}.mp3` joined to the download directory
OutputPath(title) == SanitizeFilename(title) \o <<".mp3">>

\* inputPath.replace(/\.mp3$/, ".m4a")
M4APath(inputPath) ==
    IF inputPath # <<>> /\ inputPath[Len(inputPath)] = ".mp3"
    THEN SubSeq(inputPath, 1, Len(inputPath) - 1) \o <<".m4a">>
    ELSE inputPath

LowerCase(c) == CASE c = "C" -> "c" [] c = "D" -> "d" [] OTHER -> c

RECURSIVE Lower(_)
Lower(s) == IF s = <<>> THEN <<>> ELSE <<LowerCase(Head(s))>> \o Lower(Tail(s))

\* new RegExp(pattern, "i").test(title), for patterns without metacharacters:
\* the pattern occurs in the title, letter case ignored
FilterTest(pattern, title) ==
    \E k \in 0..(Len(title) - Len(pattern)) :
        SubSeq(Lower(title), k + 1, k + Len(pattern)) = Lower(pattern)

\* podcasts.filter((p) => filterRegex.test(p.title))
RECURSIVE FilterTitles(_, _)
FilterTitles(ps, pattern) ==
    IF ps = <<>> THEN <<>>
    ELSE IF FilterTest(pattern, Head(ps))
         THEN <<Head(ps)>> \o FilterTitles(Tail(ps), pattern)
         ELSE FilterTitles(Tail(ps), pattern)

\* The titles of the catalogs the downloader is run on. A title may occur in
\* several records of a catalog (with different release dates).
TitleSlash == <<"a", "/", "b">>
TitleSpaces == <<"C", " ", " ", "d">>
Titles == {TitleSlash, TitleSpaces}

Patterns == {<<>>, <<"c">>}   \* --filter unset (the empty string), or "c"

PathsOf(ts) ==
    {OutputPath(ts[i]) : i \in DOMAIN ts} \cup {M4APath(OutputPath(ts[i])) : i \in DOMAIN ts}

AllPaths == {OutputPath(t) : t \in Titles} \cup {M4APath(OutputPath(t)) : t \in Titles}

(***************************************************************************)
(* The downloader program                                                  *)
(***************************************************************************)
Min(a, b) == IF a <= b THEN a ELSE b

Options ==
    [parallel : 1..MaxParallel, force : BOOLEAN, dryRun : BOOLEAN, convert : BOOLEAN,
     filter : Patterns]

InitDownloader ==
    /\ catalogFile \in {[kind |-> "invalid", data |-> <<>>]}
                          \cup {[kind |-> "json", data |-> ts] : ts \in SeqsUpTo(Titles, MaxCatalog)}
    /\ argv \in Options
    /\ ffmpegFound \in BOOLEAN
    /\ dirExists \in BOOLEAN
    /\ fs \in [AllPaths -> {"absent", "old"}]
    /\ \A path \in AllPaths :
           fs[path] = "old" => dirExists /\ path \in PathsOf(catalogFile.data)
    \* the files of an earlier run are those of one title (a filtered run)
    /\ \E title \in Titles : \A path \in AllPaths :
           fs[path] = "old" => path \in PathsOf(<<title>>)
    /\ fs0 = fs
    /\ dpc = "start"
    /\ podcasts = <<>>
    /\ queue = <<>>
    /\ activeCount = 0
    /\ tasks = <<>>
    /\ progressCurr = 0
    /\ exitCode = "none"

\* readFile + JSON.parse; a failure lands in main's catch: process.exit(1)
ReadCatalog ==
    /\ dpc = "start"
    /\ IF catalogFile.kind = "json"
       THEN /\ podcasts' = catalogFile.data
            /\ dpc' = "check_ffmpeg"
            /\ UNCHANGED exitCode
       ELSE /\ dpc' = "fatal"
            /\ exitCode' = "1"
            /\ UNCHANGED podcasts
    /\ UNCHANGED <<catalogFile, argv, ffmpegFound, dirExists, fs, fs0, queue, activeCount,
                   tasks, progressCurr>>
    /\ UNCHANGED <<scraperVars, sanitizeVars>>

\* execSync("ffmpeg -version"), whatever argv.convert is
CheckFfmpeg ==
    /\ dpc = "check_ffmpeg"
    /\ IF ffmpegFound
       THEN dpc' = "filter" /\ UNCHANGED exitCode
       ELSE dpc' = "fatal" /\ exitCode' = "1"
    /\ UNCHANGED <<catalogFile, argv, ffmpegFound, dirExists, fs, fs0, podcasts, queue,
                   activeCount, tasks, progressCurr>>
    /\ UNCHANGED <<scraperVars, sanitizeVars>>

\* the filter, then the early return when nothing is left to download
ApplyFilter ==
    /\ dpc = "filter"
    /\ LET kept == IF argv.filter # <<>> THEN FilterTitles(podcasts, argv.filter)
                   ELSE podcasts
       IN  /\ podcasts' = kept
           /\ IF Len(kept) = 0
              THEN dpc' = "nothing" /\ exitCode' = "0"
              ELSE dpc' = "mkdir" /\ UNCHANGED exitCode
    /\ UNCHANGED <<catalogFile, argv, ffmpegFound, dirExists, fs, fs0, queue, activeCount,
                   tasks, progressCurr>>
    /\ UNCHANGED <<scraperVars, sanitizeVars>>

\* mkdir(absoluteDownloadDir, { recursive: true }), whatever argv["dry-run"] is
MakeDir ==
    /\ dpc = "mkdir"
    /\ dirExists' = TRUE
    /\ dpc' = "schedule"
    /\ UNCHANGED <<catalogFile, argv, ffmpegFound, fs, fs0, podcasts, queue, activeCount,
                   tasks, progressCurr, exitCode>>
    /\ UNCHANGED <<scraperVars, sanitizeVars>>

NewTask ==
    [pc |-> "queued", ret |-> "none", status |-> "none", ticks |-> 0, requests |-> 0,
     encodes |-> 0, mp3Seen |-> "unchecked", m4aSeen |-> "unchecked",
     error |-> "none"]

\* what an exists check finds at a path
Seen(path) == IF fs[path] # "absent" THEN "present" ELSE "absent"

\* mutant: the exists check never finds the file
FileExistsNever(path) == FALSE

\* fileExists(path): access(path) succeeds
FileExists(path) == fs[path] # "absent"

\* mutant: a dry run goes on to fetch
DownloadProceedIgnoringDryRun == "fetch"

\* downloadFile past the exists check: a dry run logs and returns false
DownloadProceed == IF argv.dryRun THEN "return_false" ELSE "fetch"

\* downloadFile from `if (dryRun)` to its next await
EnterDownload(t) ==
    IF DownloadProceed = "return_false"
    THEN [t EXCEPT !.pc = "dl_await", !.ret = "false"]
    ELSE [t EXCEPT !.pc = "dl_fetch", !.requests = @ + 1]

\* the task body from its start to its first await
StartTask(t) ==
    IF ~argv.force THEN [t EXCEPT !.pc = "dl_access"] ELSE EnterDownload(t)

\* mutant: the tasks are not put under the limiter
StartedAtOnceUnlimited(n, concurrency) == n

\* how many of n tasks enqueued in one turn p-limit starts at once
StartedAtOnce(n, concurrency) == Min(n, concurrency)

\* mutant: the tasks held back are queued last record first
EnqueuedReversed(n, k) == [j \in 1..(n - k) |-> n + 1 - j]

\* podcasts.map((podcast) => limit(...)): the tasks the limiter holds back wait
\* in the order of the map, the catalog order
Enqueued(n, k) == [j \in 1..(n - k) |-> k + j]

\* progress bar, pLimit(argv.parallel), podcasts.map(limit(...)): every task is
\* enqueued, and the limiter starts tasks in queue order while fewer than
\* argv.parallel are running
Schedule ==
    /\ dpc = "schedule"
    /\ LET n == Len(podcasts)
           k == StartedAtOnce(n, argv.parallel)
       IN  /\ tasks' = [i \in 1..n |-> IF i <= k THEN StartTask(NewTask) ELSE NewTask]
           /\ queue' = Enqueued(n, k)
           /\ activeCount' = k
    /\ progressCurr' = 0
    /\ dpc' = "awaiting"
    /\ UNCHANGED <<catalogFile, argv, ffmpegFound, dirExists, fs, fs0, podcasts, exitCode>>
    /\ UNCHANGED <<scraperVars, sanitizeVars>>

\* mutant: the slot of a settled task is released but not handed on
SettleWithoutNext(ts) ==
    /\ tasks' = ts
    /\ activeCount' = activeCount - 1
    /\ UNCHANGED queue

\* The task's promise settles; p-limit's next() gives its slot to the head of
\* the queue, which runs to its first await. ts: tasks with the settled task
\* already updated.
SettleAndNext(ts) ==
    IF queue = <<>>
    THEN /\ tasks' = ts
         /\ activeCount' = activeCount - 1
         /\ UNCHANGED queue
    ELSE /\ tasks' = [ts EXCEPT ![Head(queue)] = StartTask(@)]
         /\ queue' = Tail(queue)
         /\ UNCHANGED activeCount

Running == dpc = "awaiting" /\ exitCode = "none"

\* The continuation of an `await` on a settled promise is a microtask, and the
\* event loop runs every queued microtask before it delivers the next I/O
\* completion (file access, fetch response, end of the stream pipeline).
MicrotasksDrained == \A i \in DOMAIN tasks : tasks[i].pc \notin {"dl_await", "cv_await"}

\* the task's catch: the error is logged, nothing is reported to the bar
Caught(i) ==
    /\ SettleAndNext([tasks EXCEPT ![i] = [@ EXCEPT !.pc = "failed", !.error = "none"]])
    /\ UNCHANGED progressCurr

\* progressBar.tick({file, status}) and the end of the task body
Tick(i, label) ==
    /\ SettleAndNext([tasks EXCEPT ![i] =
                         [@ EXCEPT !.pc = "done", !.status = label, !.ticks = @ + 1]])
    /\ progressCurr' = progressCurr + 1

\* execFileSync blocks the only thread until ffmpeg exits: while a task is
\* inside it no callback and no continuation of any task runs
EncoderRunning == \E i \in DOMAIN tasks : tasks[i].pc = "cv_exec"

\* convertToM4A past its exists check: a dry run logs and returns true;
\* otherwise execFileSync starts ffmpeg and waits for it
Convert(i) ==
    LET t == IF tasks[i].pc = "cv_access"
             THEN [tasks[i] EXCEPT !.m4aSeen = Seen(M4APath(OutputPath(podcasts[i])))]
             ELSE tasks[i]
    IN  /\ IF argv.dryRun
           THEN tasks' = [tasks EXCEPT ![i] = [t EXCEPT !.pc = "cv_await", !.ret = "true"]]
           ELSE tasks' = [tasks EXCEPT ![i] = [t EXCEPT !.pc = "cv_exec", !.encodes = @ + 1]]
        /\ UNCHANGED fs

\* ffmpeg exits and execFileSync returns, or throws on a non-zero exit status
EncoderExit(i) ==
    /\ Running
    /\ tasks[i].pc = "cv_exec"
    /\ \E ok \in BOOLEAN :
          IF ok
          THEN /\ tasks' = [tasks EXCEPT ![i] = [@ EXCEPT !.pc = "cv_await", !.ret = "true"]]
               /\ fs' = [fs EXCEPT ![M4APath(OutputPath(podcasts[i]))] = "complete"]
          ELSE /\ tasks' = [tasks EXCEPT ![i] = [@ EXCEPT !.pc = "cv_await", !.ret = "threw",
                                                    !.error = "ffmpeg"]]
               /\ UNCHANGED fs
    /\ UNCHANGED <<catalogFile, argv, ffmpegFound, dirExists, fs0, dpc, podcasts, queue,
                   activeCount, progressCurr, exitCode>>
    /\ UNCHANGED <<scraperVars, sanitizeVars>>

\* downloadFile: `await fileExists(outputPath)` resolves
DlAccessDone(i) ==
    /\ Running
    /\ ~EncoderRunning
    /\ MicrotasksDrained
    /\ tasks[i].pc = "dl_access"
    /\ LET t == [tasks[i] EXCEPT !.mp3Seen = Seen(OutputPath(podcasts[i]))]
       IN  IF FileExists(OutputPath(podcasts[i]))
           THEN tasks' = [tasks EXCEPT ![i] = [t EXCEPT !.pc = "dl_await", !.ret = "false"]]
           ELSE tasks' = [tasks EXCEPT ![i] = EnterDownload(t)]
    /\ UNCHANGED <<catalogFile, argv, ffmpegFound, dirExists, fs, fs0, dpc, podcasts, queue,
                   activeCount, progressCurr, exitCode>>
    /\ UNCHANGED <<scraperVars, sanitizeVars>>

\* mutant: a response without success or body is answered by one more request
AfterFetchRetrying(t, response) ==
    IF response = "ok" THEN [t EXCEPT !.pc = "dl_pipeline"]
    ELSE IF response = "rejected"
         THEN [t EXCEPT !.pc = "dl_await", !.ret = "threw", !.error = "fetch"]
    ELSE IF t.requests < 2
         THEN [t EXCEPT !.pc = "dl_fetch", !.requests = @ + 1]
         ELSE [t EXCEPT !.pc = "dl_await", !.ret = "threw",
                        !.error = IF response = "not_ok" THEN "http" ELSE "no_body"]

\* downloadFile after `await fetch(url)`: a rejected fetch, `!response.ok`
\* ("Failed to download ...") and `!body` ("No response body from ...") throw
\* out of downloadFile; otherwise the pipeline is awaited
AfterFetch(t, response) ==
    IF response = "ok" THEN [t EXCEPT !.pc = "dl_pipeline"]
    ELSE [t EXCEPT !.pc = "dl_await", !.ret = "threw",
                   !.error = CASE response = "not_ok" -> "http"
                               [] response = "no_body" -> "no_body"
                               [] OTHER -> "fetch"]

\* downloadFile: `await fetch(url)` settles; with a good response the pipeline
\* starts and createWriteStream creates or truncates the output file
DlFetchDone(i) ==
    /\ Running
    /\ ~EncoderRunning
    /\ MicrotasksDrained
    /\ tasks[i].pc = "dl_fetch"
    /\ \E response \in {"ok", "not_ok", "no_body", "rejected"} :
          /\ tasks' = [tasks EXCEPT ![i] = AfterFetch(@, response)]
          /\ IF response = "ok"
             THEN fs' = [fs EXCEPT ![OutputPath(podcasts[i])] = "partial"]
             ELSE UNCHANGED fs
    /\ UNCHANGED <<catalogFile, argv, ffmpegFound, dirExists, fs0, dpc, podcasts, queue,
                   activeCount, progressCurr, exitCode>>
    /\ UNCHANGED <<scraperVars, sanitizeVars>>

\* downloadFile: `await pipeline(...)` settles; a failed stream leaves the
\* partial file
DlPipelineDone(i) ==
    /\ Running
    /\ ~EncoderRunning
    /\ MicrotasksDrained
    /\ tasks[i].pc = "dl_pipeline"
    /\ \E ok \in BOOLEAN :
          IF ok
          THEN /\ tasks' = [tasks EXCEPT ![i] = [@ EXCEPT !.pc = "dl_await", !.ret = "true"]]
               /\ fs' = [fs EXCEPT ![OutputPath(podcasts[i])] = "complete"]
          ELSE /\ tasks' = [tasks EXCEPT ![i] = [@ EXCEPT !.pc = "dl_await", !.ret = "threw",
                                                    !.error = "stream"]]
               /\ UNCHANGED fs
    /\ UNCHANGED <<catalogFile, argv, ffmpegFound, dirExists, fs0, dpc, podcasts, queue,
                   activeCount, progressCurr, exitCode>>
    /\ UNCHANGED <<scraperVars, sanitizeVars>>

\* the task body resumes after `await downloadFile(...)`
DlAwaitDone(i) ==
    /\ Running
    /\ ~EncoderRunning
    /\ tasks[i].pc = "dl_await"
    /\ IF tasks[i].ret = "threw"
       THEN Caught(i) /\ UNCHANGED fs
       ELSE IF argv.convert
            THEN /\ IF ~argv.force
                    THEN /\ tasks' = [tasks EXCEPT ![i] = [@ EXCEPT !.pc = "cv_access"]]
                         /\ UNCHANGED fs
                    ELSE Convert(i)
                 /\ UNCHANGED <<queue, activeCount, progressCurr>>
            ELSE /\ Tick(i, IF tasks[i].ret = "true" THEN "downloaded" ELSE "skipped")
                 /\ UNCHANGED fs
    /\ UNCHANGED <<catalogFile, argv, ffmpegFound, dirExists, fs0, dpc, podcasts, exitCode>>
    /\ UNCHANGED <<scraperVars, sanitizeVars>>

\* convertToM4A: `await fileExists(outputPath)` resolves
CvAccessDone(i) ==
    /\ Running
    /\ ~EncoderRunning
    /\ MicrotasksDrained
    /\ tasks[i].pc = "cv_access"
    /\ IF FileExists(M4APath(OutputPath(podcasts[i])))
       THEN /\ tasks' = [tasks EXCEPT ![i] = [@ EXCEPT !.pc = "cv_await", !.ret = "false",
                                                 !.m4aSeen = Seen(M4APath(OutputPath(podcasts[i])))]]
            /\ UNCHANGED fs
       ELSE Convert(i)
    /\ UNCHANGED <<catalogFile, argv, ffmpegFound, dirExists, fs0, dpc, podcasts, queue,
                   activeCount, progressCurr, exitCode>>
    /\ UNCHANGED <<scraperVars, sanitizeVars>>

\* the task body resumes after `await convertToM4A(...)`
CvAwaitDone(i) ==
    /\ Running
    /\ ~EncoderRunning
    /\ tasks[i].pc = "cv_await"
    /\ IF tasks[i].ret = "threw"
       THEN Caught(i)
       ELSE Tick(i, IF tasks[i].ret = "true" THEN "converted" ELSE "skipped")
    /\ UNCHANGED <<catalogFile, argv, ffmpegFound, dirExists, fs, fs0, dpc, podcasts,
                   exitCode>>
    /\ UNCHANGED <<scraperVars, sanitizeVars>>

\* mutant: the catch rethrows, so a failed task rejects its promise
PromiseStateRethrown(t) ==
    IF t.pc = "done" THEN "fulfilled" ELSE IF t.pc = "failed" THEN "rejected" ELSE "pending"

\* the promise limit(...) returned for a task: the task body catches every
\* error of the transfer and the conversion, so it never rejects
PromiseState(t) == IF t.pc \in {"done", "failed"} THEN "fulfilled" ELSE "pending"

\* mutant: Promise.race, settled as soon as one task is
PromiseRace(ts) ==
    IF \E i \in DOMAIN ts : PromiseState(ts[i]) = "rejected" THEN "rejected"
    ELSE IF \E i \in DOMAIN ts : PromiseState(ts[i]) = "fulfilled" THEN "fulfilled"
    ELSE "pending"

\* Promise.all(downloadTasks)
PromiseAll(ts) ==
    IF \E i \in DOMAIN ts : PromiseState(ts[i]) = "rejected" THEN "rejected"
    ELSE IF \A i \in DOMAIN ts : PromiseState(ts[i]) = "fulfilled" THEN "fulfilled"
    ELSE "pending"

\* `await Promise.all(downloadTasks)` settles: "Downloads complete!" and main
\* returns, or main's catch calls process.exit(1)
AwaitAll ==
    /\ dpc = "awaiting"
    /\ exitCode = "none"
    /\ PromiseAll(tasks) # "pending"
    /\ IF PromiseAll(tasks) = "fulfilled"
       THEN dpc' = "complete" /\ exitCode' = "0"
       ELSE dpc' = "fatal" /\ exitCode' = "1"
    /\ UNCHANGED <<catalogFile, argv, ffmpegFound, dirExists, fs, fs0, podcasts, queue,
                   activeCount, tasks, progressCurr>>
    /\ UNCHANGED <<scraperVars, sanitizeVars>>

Next ==
    \/ ReadCatalog
    \/ CheckFfmpeg
    \/ ApplyFilter
    \/ MakeDir
    \/ Schedule
    \/ \E i \in DOMAIN tasks : DlAccessDone(i)
    \/ \E i \in DOMAIN tasks : DlFetchDone(i)
    \/ \E i \in DOMAIN tasks : DlPipelineDone(i)
    \/ \E i \in DOMAIN tasks : DlAwaitDone(i)
    \/ \E i \in DOMAIN tasks : CvAccessDone(i)
    \/ \E i \in DOMAIN tasks : EncoderExit(i)
    \/ \E i \in DOMAIN tasks : CvAwaitDone(i)
    \/ AwaitAll

Init == InitDownloader /\ ScraperOff /\ SanitizeOff

Spec == Init /\ [][Next]_vars

\* Every file check, request, stream and encoder run eventually returns or
\* fails, and the event loop runs every callback and continuation that is
\* ready: a step that stays possible is eventually taken.
FairSpec == Spec /\ WF_vars(Next)

(***************************************************************************)
(* Properties of the catalog merge                                         *)
(***************************************************************************)
NoDuplicatePairs(ps) ==
    \A i, j \in DOMAIN ps : IdentityPair(ps[i]) = IdentityPair(ps[j]) => i = j

\* identityKey(record) = title + separator + releaseDate
KeyString(p) == p.title \o <<"|">> \o p.releaseDate

NoDuplicateKeys(ps) ==
    \A i, j \in DOMAIN ps : KeyString(ps[i]) = KeyString(ps[j]) => i = j

\* the records of ps whose pair occurs at no earlier index of ps
RECURSIVE FirstOccurrences(_, _)
FirstOccurrences(ps, seen) ==
    IF ps = <<>> THEN <<>>
    ELSE IF IdentityPair(Head(ps)) \in seen
         THEN FirstOccurrences(Tail(ps), seen)
         ELSE <<Head(ps)>> \o FirstOccurrences(Tail(ps), seen \cup {IdentityPair(Head(ps))})

IsPrefix(s, t) == Len(s) <= Len(t) /\ SubSeq(t, 1, Len(s)) = s

RECURSIVE IsSubsequence(_, _)
IsSubsequence(s, t) ==
    IF s = <<>> THEN TRUE
    ELSE IF t = <<>> THEN FALSE
    ELSE IF Head(s) = Head(t) THEN IsSubsequence(Tail(s), Tail(t))
    ELSE IsSubsequence(s, Tail(t))

Merged == spc \in {"merged", "saved", "failed"}

\* C5: whenever the existing catalog has unique (title, releaseDate) pairs,
\* the merged catalog has no two records with the same pair, whatever the
\* incoming list is; merging into the empty catalog keeps exactly the first
\* occurrence of each pair of the incoming list.
C5_MergeHasNoDuplicatePairs ==
    (Merged /\ NoDuplicatePairs(existingPodcasts)) =>
        /\ NoDuplicatePairs(mergedPodcasts)
        /\ existingPodcasts = <<>> => mergedPodcasts = FirstOccurrences(newPodcasts, {})

\* C6: merging the same incoming list a second time changes nothing:
\* in a second run that scrapes the list of the first run, the merged catalog
\* equals the catalog the first run saved.
C6_MergeIdempotent ==
    (run = "second" /\ Merged /\ newPodcasts = firstNew) =>
        mergedPodcasts = existingPodcasts

C6_Witness ==
    /\ run = "second" /\ spc = "merged"
    /\ newPodcasts = firstNew
    /\ firstNew = <<PC, PC>>
    /\ firstExisting = <<PA>>
    /\ mergedPodcasts = <<PA, PC, PC>>

C8_MergeKeepsExistingAsPrefix ==
    Merged =>
        /\ IsPrefix(existingPodcasts, mergedPodcasts)
        /\ IsSubsequence(SubSeq(mergedPodcasts, Len(existingPodcasts) + 1,
                                 Len(mergedPodcasts)), newPodcasts)
        /\ newPodcasts = <<>> => mergedPodcasts = existingPodcasts

C8_Witness ==
    /\ spc = "merged"
    /\ existingPodcasts = <<PA>>
    /\ newPodcasts = <<PA2, PC>>
    /\ mergedPodcasts = <<PA, PC>>

(***************************************************************************)
(* Properties of the downloader                                            *)
(***************************************************************************)
Settled(t) == t.pc \in {"done", "failed"}

\* the tasks that have started and have not settled
ActiveTasks == {i \in DOMAIN tasks : tasks[i].pc # "queued" /\ ~Settled(tasks[i])}

\* C1: in every state of a run the number of tasks started and not yet
\* settled is at most the --parallel value, and the limiter's own count is
\* that number.
C1_ActiveTasksWithinParallel ==
    /\ Cardinality(ActiveTasks) <= argv.parallel
    /\ activeCount = Cardinality(ActiveTasks)

\* the cap is reached with a task waiting, after an earlier task failed and
\* its slot was taken over
C1_Witness ==
    /\ argv.parallel = 2
    /\ Len(tasks) = 3
    /\ tasks[1].pc = "failed"
    /\ ActiveTasks = {2, 3}
    /\ tasks[3].pc = "dl_pipeline"

\* C2: every settled task has reported exactly one progress event, and when
\* the run completes the bar has counted one event per scheduled record.
C2_EveryTaskReportsOneEvent ==
    /\ \A i \in DOMAIN tasks : Settled(tasks[i]) => tasks[i].ticks = 1
    /\ dpc = "complete" => progressCurr = Len(podcasts)

\* C3: the run is complete only when no task is queued or in flight.
C3_CompleteOnlyWhenAllSettled ==
    dpc = "complete" =>
        /\ DOMAIN tasks = 1..Len(podcasts)
        /\ \A i \in DOMAIN tasks : Settled(tasks[i])
        /\ queue = <<>>
        /\ activeCount = 0

C3_Witness ==
    /\ dpc = "complete"
    /\ Len(podcasts) = 3
    /\ argv.parallel = 2
    /\ tasks[1].pc = "done" /\ tasks[2].pc = "failed" /\ tasks[3].pc = "done"

\* C4: once tasks are scheduled the run never takes the fatal exit, however
\* many tasks fail: a failed task's slot goes to the next waiting task (no
\* task waits while a slot is free), and the run ends with exit code 0.
C4_TaskFailureIsNotFatal ==
    tasks # <<>> =>
        /\ dpc # "fatal"
        /\ exitCode # "1"
        /\ queue # <<>> => Cardinality(ActiveTasks) = argv.parallel
        /\ dpc = "complete" => exitCode = "0"

\* a sequential run in which the first and the last task failed and the one
\* between them was started and downloaded its file
C4_Witness ==
    /\ dpc = "complete"
    /\ exitCode = "0"
    /\ argv.parallel = 1
    /\ Len(podcasts) = 3
    /\ tasks[1].pc = "failed" /\ tasks[3].pc = "failed"
    /\ tasks[2].pc = "done" /\ tasks[2].status = "downloaded"

C10_DryRunTranscodeIsSkipped ==
    (argv.dryRun /\ argv.convert) =>
        \A i \in DOMAIN tasks :
            /\ tasks[i].pc = "cv_await" => tasks[i].ret = "false"
            /\ tasks[i].status # "converted"
            /\ tasks[i].encodes = 0

\* C11: without --force a transfer whose exists check found the file returns
\* skipped with no request and no write, and a transcode whose exists check
\* found the .m4a returns skipped with no encoder run; with --force and no
\* --dry-run no exists check is made and nothing is skipped: every started
\* task issues its request and no task is reported as skipped.
C11_ExistingFileSkippedUnlessForced ==
    \A i \in DOMAIN tasks :
        /\ (~argv.force /\ tasks[i].mp3Seen = "present") =>
               /\ tasks[i].requests = 0
               /\ tasks[i].pc \notin {"dl_fetch", "dl_pipeline"}
               /\ tasks[i].pc = "dl_await" => tasks[i].ret = "false"
               /\ (~argv.convert /\ Settled(tasks[i])) => tasks[i].status = "skipped"
        /\ (~argv.force /\ tasks[i].m4aSeen = "present") =>
               /\ tasks[i].encodes = 0
               /\ tasks[i].pc = "cv_await" => tasks[i].ret = "false"
               /\ Settled(tasks[i]) => tasks[i].status = "skipped"
        /\ (argv.force /\ ~argv.dryRun) =>
               /\ tasks[i].mp3Seen = "unchecked" /\ tasks[i].m4aSeen = "unchecked"
               /\ tasks[i].pc # "queued" => tasks[i].requests = 1
               /\ tasks[i].status # "skipped"

\* without --force one task was skipped twice over files that were there, and
\* wrote nothing
C11_Witness ==
    /\ ~argv.force /\ ~argv.dryRun /\ argv.convert
    /\ dpc = "complete"
    /\ \E i \in DOMAIN tasks :
          /\ tasks[i].mp3Seen = "present" /\ tasks[i].m4aSeen = "present"
          /\ tasks[i].status = "skipped"
          /\ fs[OutputPath(podcasts[i])] = "old"
          /\ fs[M4APath(OutputPath(podcasts[i]))] = "old"

\* C12: a missing encoder is fatal only when conversion is requested: without
\* --convert a run over a readable catalog never ends in the fatal exit because
\* ffmpeg cannot be resolved.
C12_EncoderCheckedOnlyForConvert ==
    (catalogFile.kind = "json" /\ ~argv.convert /\ ~ffmpegFound) =>
        ~(dpc = "fatal" /\ exitCode = "1")

\* C13: with --parallel 1 the tasks run one at a time in catalog order: the
\* task of record i+1 has not started while the task of record i is unsettled.
C13_OneAtATimeInCatalogOrder ==
    argv.parallel = 1 =>
        /\ Cardinality(ActiveTasks) <= 1
        /\ \A i \in DOMAIN tasks :
              (i + 1 \in DOMAIN tasks /\ tasks[i + 1].pc # "queued") => Settled(tasks[i])

\* three records under --parallel 1: the first failed, the second is in
\* flight, the third still waits
C13_Witness ==
    /\ argv.parallel = 1
    /\ Len(tasks) = 3
    /\ tasks[1].pc = "failed"
    /\ tasks[2].pc \in {"dl_fetch", "dl_pipeline"}
    /\ tasks[3].pc = "queued"

\* C14: a catalog file that exists but does not parse is fatal for the run
\* that reads it; in particular no step of a scraper/merger run replaces an
\* unparsable catalog file.
C14_UnparsableCatalogNeverReplaced ==
    [][file.kind = "invalid" => file' = file]_vars

\* C15: over any sequence of scraper/merger runs that starts from an absent
\* file or a valid catalog, every step leaves the persisted catalog a valid
\* catalog of which the previous one is an exact prefix, whatever the scrape
\* yields.
C15_CatalogOnlyGrows ==
    [][file.kind # "invalid" =>
          /\ file'.kind # "invalid"
          /\ IsPrefix(file.data, file'.data)]_vars

\* a second run whose scrape yielded nothing was saved over a catalog the
\* first run had extended
C15_Witness ==
    /\ run = "second" /\ spc = "saved"
    /\ firstExisting = <<PA>> /\ firstNew = <<PC>>
    /\ newPodcasts = <<>>
    /\ file = Json(<<PA, PC>>)

\* C16: sanitize is total and idempotent: for every string over path-unsafe
\* characters, whitespace and ordinary characters, the empty string included,
\* sanitize yields a string, free of unsafe characters and whitespace, and
\* sanitizing that string again yields the same string.
C16_SanitizeTotalAndIdempotent ==
    /\ sanpc \in {"once", "twice"} =>
          /\ sanitized \in Seq(TitleChars \ (InvalidChars \cup Whitespace))
          /\ Len(sanitized) <= Len(filename)
    /\ sanpc = "twice" => resanitized = sanitized

\* a string with an unsafe character between two runs of whitespace was
\* sanitized twice
C16_Witness ==
    /\ sanpc = "twice"
    /\ filename = <<" ", "/", "\t">>
    /\ sanitized = <<"_", "-", "_">>
    /\ resanitized = sanitized

BadResponse(t) == t.error \in {"http", "no_body"}

\* C17: when the response to a task's request has a non-success status or no
\* body, the step that receives it writes no file and leaves the task with its
\* one request and no encoder run; the task's next step settles it as failed,
\* again with no request, no encoder run, no progress event and no write; and
\* a task settled as failed never takes a step again (no retry, no transcode).
C17_BadResponseFailsTaskWithoutRetry ==
    [][\A i \in DOMAIN tasks :
          /\ (~BadResponse(tasks[i]) /\ BadResponse(tasks'[i])) =>
                /\ fs' = fs
                /\ tasks'[i].requests = 1 /\ tasks'[i].encodes = 0
                /\ tasks'[i].m4aSeen = "unchecked"
          /\ BadResponse(tasks[i]) =>
                /\ tasks'[i].pc = "failed"
                /\ tasks'[i].requests = 1 /\ tasks'[i].encodes = 0
                /\ tasks'[i].m4aSeen = "unchecked"
                /\ tasks'[i].status = "none" /\ tasks'[i].ticks = 0
                /\ fs' = fs
          /\ tasks[i].pc = "failed" => tasks'[i] = tasks[i]]_vars

\* --force --convert over an existing file: the response had no success
\* status, the error is on its way to the task's catch, the old file is as it
\* was
C17_Witness ==
    /\ argv.force /\ argv.convert /\ ~argv.dryRun
    /\ \E i \in DOMAIN tasks :
          /\ tasks[i].error = "http"
          /\ tasks[i].pc = "dl_await"
          /\ fs[OutputPath(podcasts[i])] = "old"
          /\ fs = fs0

\* the completion of the I/O operation task i is suspended at is delivered
IoCompletes(i) ==
    \/ DlAccessDone(i)
    \/ DlFetchDone(i)
    \/ DlPipelineDone(i)
    \/ CvAccessDone(i)

\* while an encoder run is in progress no other task can take a step
EncoderRunBlocksOthers ==
    \A a \in DOMAIN tasks :
        tasks[a].pc = "cv_exec" =>
            \A b \in DOMAIN tasks \ {a} :
                ~ENABLED (IoCompletes(b) \/ DlAwaitDone(b) \/ CvAwaitDone(b) \/ EncoderExit(b))

\* C18: waiting for the encoder is a suspension point: while task A's
\* encoder run is in progress, another in-flight task B that is suspended at
\* its file check, its request or its stream can take its step.
C18_EncoderWaitIsSuspensionPoint ==
    \A a, b \in DOMAIN tasks :
        (a # b /\ tasks[a].pc = "cv_exec"
               /\ tasks[b].pc \in {"dl_access", "dl_fetch", "dl_pipeline", "cv_access"}) =>
            ENABLED IoCompletes(b)

\* C19: when every file check, request, stream and encoder run eventually
\* returns or fails, no task waits while fewer than --parallel tasks are
\* active, and once the tasks are scheduled the run eventually completes with
\* every task of the filtered catalog started and settled.
C19_EveryTaskSettlesAndRunCompletes ==
    /\ [](queue # <<>> => Cardinality(ActiveTasks) = argv.parallel)
    /\ (dpc = "awaiting") ~>
          (/\ dpc = "complete"
           /\ Len(tasks) = Len(podcasts)
           /\ \A i \in DOMAIN tasks : Settled(tasks[i]))

\* three records under --parallel 2: the first two tasks failed, the third,
\* which had to wait for a slot, was transferred and transcoded, and the run
\* is complete
C19_Witness ==
    /\ dpc = "complete"
    /\ argv.parallel = 2 /\ argv.convert
    /\ Len(tasks) = 3
    /\ tasks[1].pc = "failed" /\ tasks[2].pc = "failed"
    /\ tasks[3].pc = "done" /\ tasks[3].status = "converted"
    /\ tasks[3].requests = 1 /\ tasks[3].encodes = 1

\* the records of ps whose (title, releaseDate) pair is not in pairs
RECURSIVE KeptByPair(_, _)
KeptByPair(ps, pairs) ==
    IF ps = <<>> THEN <<>>
    ELSE IF IdentityPair(Head(ps)) \notin pairs
         THEN <<Head(ps)>> \o KeptByPair(Tail(ps), pairs)
         ELSE KeptByPair(Tail(ps), pairs)

\* C20: the merge drops an incoming record exactly when an existing record
\* has the same title and the same releaseDate: the merged catalog is the
\* existing one followed by the incoming records whose pair differs from every
\* existing pair, whatever characters the titles and dates contain.
C20_DedupExactlyOnPair ==
    Merged =>
        mergedPodcasts =
            existingPodcasts \o
            KeptByPair(newPodcasts,
                       {IdentityPair(existingPodcasts[i]) : i \in DOMAIN existingPodcasts})

\* two tasks stream into the same file at the same time
BothStreamInto(i, j) ==
    /\ i # j
    /\ tasks[i].pc = "dl_pipeline" /\ tasks[j].pc = "dl_pipeline"
    /\ OutputPath(podcasts[i]) = OutputPath(podcasts[j])

\* the exists check of task i found a file that was not there before the run
SawFileOfThisRun(i) ==
    /\ tasks[i].mp3Seen = "present"
    /\ fs0[OutputPath(podcasts[i])] = "absent"

\* C21: the records of a catalog have unique identity keys (records with one
\* title differ in their release date), and no two tasks of a run write to
\* the same destination path: never do two in-flight tasks stream into one
\* file, and never is a record's transfer skipped because of a file that
\* another record's task wrote in the same run.
C21_NoTwoTasksShareDestination ==
    /\ \A i, j \in DOMAIN tasks : ~BothStreamInto(i, j)
    /\ \A i \in DOMAIN tasks : ~SawFileOfThisRun(i)

====
